---- MODULE Spec2Model ----
(***************************************************************************)
(* Model of segment_anything/modeling/mask_decoder.py: the MaskDecoder     *)
(* (construction, forward, predict_masks) and the generic MLP.             *)
(*                                                                         *)
(* Tensors are modelled by their shape and by WHICH input elements each    *)
(* element is computed from (symbolic terms), not by floating point        *)
(* values.  All tensor axes are indexed from 0 as in the source.           *)
(***************************************************************************)
EXTENDS Integers, Sequences, FiniteSets, TLC

VARIABLES decoder, frames, mlp, mlp_call

vars == <<decoder, frames, mlp, mlp_call>>

(***************************************************************************)
(* Bounds of the exploration.                                              *)
(***************************************************************************)
MaxB == 2          \* images in image_embeddings (B)
MaxInst == 2       \* prompt instances in sparse_prompt_embeddings (B')
MaxDense == 4      \* batch of dense_prompt_embeddings
MaxN == 1          \* sparse prompt tokens per instance (N)
MaxH == 2          \* feature map height
MaxW == 2          \* feature map width
MaxMulti == 3      \* num_multimask_outputs
MaxDepth == 2      \* iou_head_depth
MaxInstConc == 2   \* prompt instances of the interleaved calls
MaxNConc == 1      \* sparse prompt tokens of the interleaved calls
MaxLayers == 3     \* num_layers of a stand-alone MLP
MaxWidth == 2      \* input/hidden/output widths of a stand-alone MLP

TransformerDims == {8, 12, 16}
ConcDims == {16}
ConcMulti == {0, 1}
Threads == {1, 2}

(***************************************************************************)
(* Program constants.                                                      *)
(***************************************************************************)
KernelSize == 2            \* kernel_size of both ConvTranspose2d
Stride == 2                \* stride of both ConvTranspose2d
HyperDepth == 3            \* num_layers of every hypernetwork MLP
IouHeadHiddenDim == 256    \* default iou_head_hidden_dim
IouHeadDepth == 3          \* default iou_head_depth

(***************************************************************************)
(* Helpers on 0-indexed lists (functions with domain 0..n-1).              *)
(***************************************************************************)
Size0(f) == Cardinality(DOMAIN f)

Empty0 == [k \in {} |-> 0]

\* torch.cat along the listed axis
Cat0(f, g) ==
  [k \in 0..(Size0(f) + Size0(g) - 1) |->
     IF k < Size0(f) THEN f[k] ELSE g[k - Size0(f)]]

\* Python slice(start, stop) clamped to the axis length
Slice0(f, start, stop) ==
  LET hi == IF stop < Size0(f) THEN stop ELSE Size0(f)
      n  == IF hi > start THEN hi - start ELSE 0
  IN  [k \in 0..(n - 1) |-> f[start + k]]

\* Python [v] * n (a negative n gives the empty list)
Times0(v, n) == [k \in 0..(n - 1) |-> v]

(***************************************************************************)
(* class MLP                                                               *)
(***************************************************************************)
NoMLP == [num_layers |-> -1, layers |-> Empty0, sigmoid_output |-> FALSE,
          weights |-> <<"none", 0>>]

\* MLP.__init__: zip([input_dim] + h, h + [output_dim]), h = [hidden_dim] * (num_layers - 1)
MLPInit(weights, input_dim, hidden_dim, output_dim, num_layers, sigmoid_output) ==
  LET h    == Times0(hidden_dim, num_layers - 1)
      ins  == Cat0(Times0(input_dim, 1), h)
      outs == Cat0(h, Times0(output_dim, 1))
      len  == IF Size0(ins) < Size0(outs) THEN Size0(ins) ELSE Size0(outs)
  IN  [num_layers     |-> num_layers,
       layers         |-> [i \in 0..(len - 1) |-> [n |-> ins[i], k |-> outs[i]]],
       sigmoid_output |-> sigmoid_output,
       weights        |-> weights]

\* variant: the loop test reads "i < num_layers", so ReLU follows the last layer too
MLPLayerOps_ReluAfterLast(m, i) ==
  IF i < m.num_layers
    THEN << [op |-> "linear", i |-> i, n |-> m.layers[i].n, k |-> m.layers[i].k],
            [op |-> "relu",   i |-> i, n |-> m.layers[i].k, k |-> m.layers[i].k] >>
    ELSE << [op |-> "linear", i |-> i, n |-> m.layers[i].n, k |-> m.layers[i].k] >>

\* one iteration of the loop of MLP.forward: the operations applied by layer i
MLPLayerOps(m, i) ==
  IF i < m.num_layers - 1
    THEN << [op |-> "linear", i |-> i, n |-> m.layers[i].n, k |-> m.layers[i].k],
            [op |-> "relu",   i |-> i, n |-> m.layers[i].k, k |-> m.layers[i].k] >>
    ELSE << [op |-> "linear", i |-> i, n |-> m.layers[i].n, k |-> m.layers[i].k] >>

RECURSIVE MLPLoop(_, _)
MLPLoop(m, i) ==
  IF i >= Size0(m.layers) THEN << >>
  ELSE MLPLayerOps(m, i) \o MLPLoop(m, i + 1)

\* MLP.forward: the sequence of operations applied to x, in order
MLPForwardOps(m) ==
  LET last == m.layers[Size0(m.layers) - 1].k
  IN  MLPLoop(m, 0) \o
      (IF m.sigmoid_output
         THEN << [op |-> "sigmoid", i |-> Size0(m.layers), n |-> last, k |-> last] >>
         ELSE << >>)

\* the width of MLP.forward's result
MLPOutDim(m) == m.layers[Size0(m.layers) - 1].k

(***************************************************************************)
(* Tensors: a shape and, per entry of the leading (batch) axis, a term     *)
(* saying what the entry was computed from.                                *)
(***************************************************************************)
NoTensor == [shape |-> << >>, e |-> Empty0]

Tensor(shape, e) == [shape |-> shape, e |-> e]

\* tensor.numel()
RECURSIVE Numel(_)
Numel(shape) == IF shape = << >> THEN 1 ELSE Head(shape) * Numel(Tail(shape))

\* broadcasting of one axis: 0 stands for "not broadcastable"
BroadcastDim(a, b) ==
  IF a = b THEN a ELSE IF a = 1 THEN b ELSE IF b = 1 THEN a ELSE 0

\* the index read from an axis of length n when the result index is j
BroadcastIdx(n, j) == IF n = 1 THEN 0 ELSE j

\* torch.repeat_interleave(x, repeats, dim=0) on the batch entries
RepeatInterleave(e, repeats) ==
  [j \in 0..(Size0(e) * repeats - 1) |-> e[j \div repeats]]

(***************************************************************************)
(* class MaskDecoder                                                       *)
(***************************************************************************)
NoDecoder ==
  [constructed |-> FALSE, transformer_dim |-> 0, num_multimask_outputs |-> 0,
   num_mask_tokens |-> 0, iou_token |-> NoTensor, mask_tokens |-> NoTensor,
   output_upscaling |-> << >>, output_hypernetworks_mlps |-> Empty0,
   iou_prediction_head |-> NoMLP]

\* nn.Embedding(num, dim).weight: row k is the learned vector k of the table
Embedding(kind, num, dim) ==
  Tensor(<<num, dim>>, [k \in 0..(num - 1) |-> [kind |-> kind, idx |-> k, inst |-> -1]])

\* variant: the second transposed convolution is built with stride 1
OutputUpscaling_SecondStride1(transformer_dim) ==
  << [op |-> "conv_t", cin |-> transformer_dim, cout |-> transformer_dim \div 4,
      kernel |-> KernelSize, stride |-> Stride],
     [op |-> "norm", cin |-> transformer_dim \div 4, cout |-> transformer_dim \div 4,
      kernel |-> 1, stride |-> 1],
     [op |-> "act", cin |-> 0, cout |-> 0, kernel |-> 1, stride |-> 1],
     [op |-> "conv_t", cin |-> transformer_dim \div 4, cout |-> transformer_dim \div 8,
      kernel |-> KernelSize, stride |-> 1],
     [op |-> "act", cin |-> 0, cout |-> 0, kernel |-> 1, stride |-> 1] >>

\* the nn.Sequential output_upscaling built by MaskDecoder.__init__
OutputUpscaling(transformer_dim) ==
  << [op |-> "conv_t", cin |-> transformer_dim, cout |-> transformer_dim \div 4,
      kernel |-> KernelSize, stride |-> Stride],
     [op |-> "norm", cin |-> transformer_dim \div 4, cout |-> transformer_dim \div 4,
      kernel |-> 1, stride |-> 1],
     [op |-> "act", cin |-> 0, cout |-> 0, kernel |-> 1, stride |-> 1],
     [op |-> "conv_t", cin |-> transformer_dim \div 4, cout |-> transformer_dim \div 8,
      kernel |-> KernelSize, stride |-> Stride],
     [op |-> "act", cin |-> 0, cout |-> 0, kernel |-> 1, stride |-> 1] >>

\* MaskDecoder.__init__: it validates nothing and always returns an object
MaskDecoderInit(transformer_dim, num_multimask_outputs, iou_head_depth, iou_head_hidden_dim) ==
  LET num_mask_tokens == num_multimask_outputs + 1
  IN  [constructed               |-> TRUE,
       transformer_dim           |-> transformer_dim,
       num_multimask_outputs     |-> num_multimask_outputs,
       num_mask_tokens           |-> num_mask_tokens,
       iou_token                 |-> Embedding("iou", 1, transformer_dim),
       mask_tokens               |-> Embedding("mask", num_mask_tokens, transformer_dim),
       output_upscaling          |-> OutputUpscaling(transformer_dim),
       output_hypernetworks_mlps |->
         [i \in 0..(num_mask_tokens - 1) |->
            MLPInit(<<"hyper", i>>, transformer_dim, transformer_dim,
                    transformer_dim \div 8, HyperDepth, FALSE)],
       iou_prediction_head       |->
         MLPInit(<<"iou_head", 0>>, transformer_dim, iou_head_hidden_dim,
                 num_mask_tokens, iou_head_depth, FALSE)]

(***************************************************************************)
(* The arguments of one forward call.                                      *)
(***************************************************************************)
NoInputs ==
  [image_embeddings |-> NoTensor, image_pe |-> NoTensor,
   sparse_prompt_embeddings |-> NoTensor, dense_prompt_embeddings |-> NoTensor,
   multimask_output |-> FALSE]

\* B images, Bp prompt instances with N sparse tokens each, D dense embeddings
MakeInputs(B, Bp, D, N, C, H, W, multimask_output) ==
  [image_embeddings         |-> Tensor(<<B, C, H, W>>, [i \in 0..(B - 1) |-> i]),
   image_pe                 |-> Tensor(<<B, C, H, W>>, [i \in 0..(B - 1) |-> i]),
   sparse_prompt_embeddings |->
     Tensor(<<Bp, N, C>>,
            [b \in 0..(Bp - 1) |->
               [n \in 0..(N - 1) |-> [kind |-> "sparse", idx |-> n, inst |-> b]]]),
   dense_prompt_embeddings  |-> Tensor(<<D, C, H, W>>, [d \in 0..(D - 1) |-> d]),
   multimask_output         |-> multimask_output]

(***************************************************************************)
(* The frame (local variables and position) of one forward call.           *)
(***************************************************************************)
IdleFrame ==
  [pc |-> "idle", err |-> "", in |-> NoInputs,
   tokens |-> NoTensor, src |-> NoTensor, pos_src |-> NoTensor,
   bchw |-> << >>, hs |-> NoTensor, src_out |-> NoTensor,
   iou_token_out |-> NoTensor, mask_tokens_out |-> NoTensor,
   upscaled_embedding |-> NoTensor, i |-> 0, range_n |-> 0,
   hyper_in_list |-> Empty0,
   hyper_in |-> NoTensor, masks |-> NoTensor, iou_pred |-> NoTensor,
   out_masks |-> NoTensor, out_iou_pred |-> NoTensor]

Raise(f, msg) == [f EXCEPT !.pc = "error", !.err = msg]

StartFrame(inputs) == [IdleFrame EXCEPT !.pc = "tokens", !.in = inputs]

(***************************************************************************)
(* predict_masks, statement by statement.  Every step is a function of the *)
(* decoder object and of the frame of the call.                            *)
(***************************************************************************)

\* variant: the sparse prompts are concatenated before the output tokens
StepTokens_PromptsFirst(self, f) ==
  LET sparse        == f.in.sparse_prompt_embeddings
      output_tokens == Cat0(self.iou_token.e, self.mask_tokens.e)
      dim           == self.iou_token.shape[2]
      expanded      == [b \in 0..(sparse.shape[1] - 1) |-> output_tokens]
  IN  IF self.mask_tokens.shape[2] # dim \/ sparse.shape[3] # dim
        THEN Raise(f, "cat: sizes of tensors must match")
        ELSE [f EXCEPT
               !.pc = "repeat_src",
               !.tokens = Tensor(<<sparse.shape[1], Size0(output_tokens) + sparse.shape[2], dim>>,
                                 [b \in 0..(sparse.shape[1] - 1) |->
                                    Cat0(sparse.e[b], expanded[b])])]

\* lines 171-173: output_tokens, expand to sparse.size(0), cat with the sparse prompts
StepTokens(self, f) ==
  LET sparse        == f.in.sparse_prompt_embeddings
      output_tokens == Cat0(self.iou_token.e, self.mask_tokens.e)
      dim           == self.iou_token.shape[2]
      expanded      == [b \in 0..(sparse.shape[1] - 1) |-> output_tokens]
  IN  IF self.mask_tokens.shape[2] # dim \/ sparse.shape[3] # dim
        THEN Raise(f, "cat: sizes of tensors must match")
        ELSE [f EXCEPT
               !.pc = "repeat_src",
               !.tokens = Tensor(<<sparse.shape[1], Size0(output_tokens) + sparse.shape[2], dim>>,
                                 [b \in 0..(sparse.shape[1] - 1) |->
                                    Cat0(expanded[b], sparse.e[b])])]

\* line 176: src = torch.repeat_interleave(image_embeddings, tokens.shape[0], dim=0)
StepRepeatSrc(self, f) ==
  LET x       == f.in.image_embeddings
      repeats == f.tokens.shape[1]
      rep     == RepeatInterleave(x.e, repeats)
  IN  [f EXCEPT
        !.pc = "add_dense",
        !.src = Tensor(<<x.shape[1] * repeats, x.shape[2], x.shape[3], x.shape[4]>>,
                       [j \in DOMAIN rep |-> [img |-> rep[j], dense |-> -1]])]

\* variant: the add refuses every difference of shape instead of broadcasting
StepAddDense_Strict(self, f) ==
  LET a == f.src
      d == f.in.dense_prompt_embeddings
  IN  IF a.shape # d.shape
        THEN Raise(f, "add: sizes of tensors must match")
        ELSE [f EXCEPT
               !.pc = "repeat_pos",
               !.src = Tensor(a.shape,
                              [j \in 0..(a.shape[1] - 1) |->
                                 [img |-> a.e[j].img, dense |-> d.e[j]]])]

\* line 177: src = src + dense_prompt_embeddings (an element-wise add that broadcasts)
StepAddDense(self, f) ==
  LET a     == f.src
      d     == f.in.dense_prompt_embeddings
      shape == [k \in 1..4 |-> BroadcastDim(a.shape[k], d.shape[k])]
  IN  IF \E k \in 1..4 : shape[k] = 0
        THEN Raise(f, "add: sizes of tensors must match")
        ELSE [f EXCEPT
               !.pc = "repeat_pos",
               !.src = Tensor(shape,
                              [j \in 0..(shape[1] - 1) |->
                                 [img   |-> a.e[BroadcastIdx(a.shape[1], j)].img,
                                  dense |-> d.e[BroadcastIdx(d.shape[1], j)]]])]

\* lines 178-179: pos_src = repeat_interleave(image_pe, ...); b, c, h, w = src.shape
StepRepeatPos(self, f) ==
  LET x       == f.in.image_pe
      repeats == f.tokens.shape[1]
  IN  [f EXCEPT
        !.pc = "transformer",
        !.pos_src = Tensor(<<x.shape[1] * repeats, x.shape[2], x.shape[3], x.shape[4]>>,
                           RepeatInterleave(x.e, repeats)),
        !.bchw = f.src.shape]

\* The transformer is an external module.  Its contract: source, positional
\* encoding and tokens of one batch size B and one channel width C go in,
\* refined tokens [B, T, C] and the refined source [B, H*W, C] come out.
TransformerInContract(src, pos_src, tokens) ==
  /\ src.shape = pos_src.shape
  /\ tokens.shape[1] = src.shape[1]
  /\ tokens.shape[3] = src.shape[2]

\* the batch size all three arguments broadcast to (0: none)
TransformerBatch(src, pos_src, tokens) ==
  LET sp == BroadcastDim(src.shape[1], pos_src.shape[1])
  IN  IF sp = 0 THEN 0 ELSE BroadcastDim(sp, tokens.shape[1])

\* what a call outside the contract may do
TransformerModes(src, pos_src, tokens) ==
  IF TransformerInContract(src, pos_src, tokens) THEN {"ok"}
  ELSE {"raise"} \cup
       (IF /\ TransformerBatch(src, pos_src, tokens) # 0
           /\ Tail(src.shape) = Tail(pos_src.shape)
           /\ tokens.shape[3] = src.shape[2]
          THEN {"broadcast"} ELSE {})

\* hs, src = self.transformer(src, pos_src, tokens)
Transformer(src, pos_src, tokens) ==
  LET B == TransformerBatch(src, pos_src, tokens)
      T == tokens.shape[2]
  IN  [hs  |-> Tensor(<<B, T, tokens.shape[3]>>,
                      [b \in 0..(B - 1) |->
                         [k \in 0..(T - 1) |->
                            [tok |-> tokens.e[BroadcastIdx(tokens.shape[1], b)][k],
                             pos |-> k,
                             src |-> src.e[BroadcastIdx(src.shape[1], b)],
                             pe  |-> pos_src.e[BroadcastIdx(pos_src.shape[1], b)]]]]),
       src |-> Tensor(<<B, src.shape[3] * src.shape[4], src.shape[2]>>,
                      [b \in 0..(B - 1) |->
                         [src |-> src.e[BroadcastIdx(src.shape[1], b)],
                          pe  |-> pos_src.e[BroadcastIdx(pos_src.shape[1], b)],
                          tokens |-> BroadcastIdx(tokens.shape[1], b)]])]

\* lines 182-184: run the transformer, read iou_token_out and mask_tokens_out
StepTransformer(self, f, mode) ==
  IF mode = "raise" THEN Raise(f, "transformer: sizes of tensors must match")
  ELSE
    LET r  == Transformer(f.src, f.pos_src, f.tokens)
        hs == r.hs
    IN  IF hs.shape[2] < 1 THEN Raise(f, "index 0 is out of bounds")
        ELSE [f EXCEPT
               !.pc = "upscale",
               !.hs = hs,
               !.src_out = r.src,
               !.iou_token_out =
                  Tensor(<<hs.shape[1], hs.shape[3]>>,
                         [b \in DOMAIN hs.e |-> hs.e[b][0]]),
               !.mask_tokens_out =
                  Tensor(<<hs.shape[1],
                           Size0(Slice0([k \in 0..(hs.shape[2] - 1) |-> k],
                                        1, 1 + self.num_mask_tokens)),
                           hs.shape[3]>>,
                         [b \in DOMAIN hs.e |->
                            Slice0(hs.e[b], 1, 1 + self.num_mask_tokens)])]

\* nn.Sequential.forward of output_upscaling on a [b, c, h, w] shape;
\* << >> stands for a raised error
RECURSIVE UpscaleShape(_, _)
UpscaleShape(layers, shape) ==
  IF layers = << >> \/ shape = << >> THEN shape
  ELSE
    LET l == Head(layers)
    IN  IF l.op = "conv_t"
          THEN IF shape[2] # l.cin THEN << >>
               ELSE UpscaleShape(Tail(layers),
                      <<shape[1], l.cout,
                        (shape[3] - 1) * l.stride + l.kernel,
                        (shape[4] - 1) * l.stride + l.kernel>>)
        ELSE IF l.op = "norm"
          THEN IF shape[2] # l.cin THEN << >>
               ELSE UpscaleShape(Tail(layers), shape)
        ELSE UpscaleShape(Tail(layers), shape)

\* lines 187-188: src.transpose(1, 2).view(b, c, h, w), then output_upscaling
StepUpscale(self, f) ==
  LET s      == f.src_out
      viewed == f.bchw
      up     == UpscaleShape(self.output_upscaling, viewed)
      per    == s.shape[2] * s.shape[3]
  IN  IF Numel(s.shape) # Numel(viewed)
        THEN Raise(f, "view: shape is invalid for input")
      ELSE IF up = << >>
        THEN Raise(f, "conv_transpose2d: channels do not match")
      ELSE [f EXCEPT
             !.pc = "loop",
             !.upscaled_embedding =
                Tensor(up, [j \in 0..(viewed[1] - 1) |->
                              s.e[(j * viewed[2] * viewed[3] * viewed[4]) \div per]])]

\* lines 189-190: hyper_in_list = []; range(self.num_mask_tokens) is evaluated once
StepLoop(self, f) ==
  [f EXCEPT !.pc = "hyper", !.i = 0, !.range_n = self.num_mask_tokens,
            !.hyper_in_list = Empty0]

\* line 191: hyper_in_list.append(self.output_hypernetworks_mlps[i](mask_tokens_out[:, i, :]))
HyperIn(self, mask_tokens_out, i) ==
  LET m == self.output_hypernetworks_mlps[i]
  IN  Tensor(<<mask_tokens_out.shape[1], MLPOutDim(m)>>,
             [b \in DOMAIN mask_tokens_out.e |->
                [mlp |-> m.weights, ops |-> MLPForwardOps(m),
                 arg |-> mask_tokens_out.e[b][i]]])

\* line 192: torch.stack(hyper_in_list, dim=1)
Stack1(list) ==
  Tensor(<<list[0].shape[1], Size0(list), list[0].shape[2]>>,
         [b \in DOMAIN list[0].e |-> [k \in DOMAIN list |-> list[k].e[b]]])

\* lines 190-192: one iteration of the loop, or the stack after the last one
StepHyper(self, f) ==
  IF f.i < f.range_n
    THEN IF f.i \notin DOMAIN self.output_hypernetworks_mlps
           THEN Raise(f, "index out of range")
         ELSE IF f.i >= f.mask_tokens_out.shape[2]
           THEN Raise(f, "index is out of bounds")
         ELSE IF f.mask_tokens_out.shape[3] # self.output_hypernetworks_mlps[f.i].layers[0].n
           THEN Raise(f, "linear: shapes cannot be multiplied")
         ELSE [f EXCEPT
                !.i = f.i + 1,
                !.hyper_in_list =
                   Cat0(f.hyper_in_list,
                        Times0(HyperIn(self, f.mask_tokens_out, f.i), 1))]
  ELSE IF Size0(f.hyper_in_list) = 0
    THEN Raise(f, "stack expects a non-empty list")
  ELSE [f EXCEPT !.pc = "matmul", !.hyper_in = Stack1(f.hyper_in_list)]

\* variant: the flattened pixel index is split by the height instead of the width
MatmulView_SplitByHeight(hyper_in, up, R, bb, m, y, x) ==
  LET b    == up.shape[1]
      h    == up.shape[3]
      w    == up.shape[4]
      M    == hyper_in.shape[2]
      Mv   == (R * M * h * w) \div (b * h * w)
      flat == ((bb * Mv + m) * h + y) * w + x
      r    == flat \div (M * h * w)
      m0   == (flat \div (h * w)) % M
      p    == flat % (h * w)
  IN  { [hb |-> BroadcastIdx(hyper_in.shape[1], r), hm |-> m0, c |-> cc,
         ub |-> BroadcastIdx(b, r), uy |-> p \div h, ux |-> p % h]
        : cc \in 0..(up.shape[2] - 1) }

\* line 194: (hyper_in @ upscaled_embedding.view(b, c, h * w)).view(b, -1, h, w).
\* Element [bb, m, y, x] of the result, as the set of products it sums: the
\* product of hyper_in[hb, hm, c] and upscaled_embedding[ub, c, uy, ux].
MatmulView(hyper_in, up, R, bb, m, y, x) ==
  LET b    == up.shape[1]
      h    == up.shape[3]
      w    == up.shape[4]
      M    == hyper_in.shape[2]
      Mv   == (R * M * h * w) \div (b * h * w)
      flat == ((bb * Mv + m) * h + y) * w + x
      r    == flat \div (M * h * w)
      m0   == (flat \div (h * w)) % M
      p    == flat % (h * w)
  IN  { [hb |-> BroadcastIdx(hyper_in.shape[1], r), hm |-> m0, c |-> cc,
         ub |-> BroadcastIdx(b, r), uy |-> p \div w, ux |-> p % w]
        : cc \in 0..(up.shape[2] - 1) }

\* lines 193-194
StepMatmul(self, f) ==
  LET up == f.upscaled_embedding
      hi == f.hyper_in
      b  == up.shape[1]
      h  == up.shape[3]
      w  == up.shape[4]
      R  == BroadcastDim(hi.shape[1], b)
      Mv == (R * hi.shape[2] * h * w) \div (b * h * w)
  IN  IF hi.shape[3] # up.shape[2] \/ R = 0
        THEN Raise(f, "matmul: shapes cannot be multiplied")
      ELSE IF (R * hi.shape[2] * h * w) % (b * h * w) # 0
        THEN Raise(f, "view: shape is invalid for input")
      ELSE [f EXCEPT
             !.pc = "iou",
             !.bchw = up.shape,
             !.masks =
                Tensor(<<b, Mv, h, w>>,
                       [bb \in 0..(b - 1) |->
                          [m \in 0..(Mv - 1) |->
                             [y \in 0..(h - 1) |->
                                [x \in 0..(w - 1) |->
                                   MatmulView(hi, up, R, bb, m, y, x)]]]])]

\* line 197: iou_pred = self.iou_prediction_head(iou_token_out)
StepIou(self, f) ==
  LET m == self.iou_prediction_head
      x == f.iou_token_out
  IN  IF x.shape[2] # m.layers[0].n
        THEN Raise(f, "linear: shapes cannot be multiplied")
        ELSE [f EXCEPT
               !.pc = "select",
               !.iou_pred =
                  Tensor(<<x.shape[1], MLPOutDim(m)>>,
                         [b \in DOMAIN x.e |->
                            [k \in 0..(MLPOutDim(m) - 1) |->
                               [mlp |-> m.weights, ops |-> MLPForwardOps(m),
                                arg |-> x.e[b], slot |-> k]]])]

(***************************************************************************)
(* forward: the output selector.                                           *)
(***************************************************************************)
\* variant: the multimask slice starts at slot 0
MaskSlice_FromSlot0(multimask_output) ==
  IF multimask_output THEN [start |-> 0, stop |-> 0, open |-> TRUE]
                      ELSE [start |-> 0, stop |-> 1, open |-> FALSE]

\* lines 131-134: slice(1, None) or slice(0, 1); open = the stop is None
MaskSlice(multimask_output) ==
  IF multimask_output THEN [start |-> 1, stop |-> 0, open |-> TRUE]
                      ELSE [start |-> 0, stop |-> 1, open |-> FALSE]

ApplySlice(list, sl) ==
  Slice0(list, sl.start, IF sl.open THEN Size0(list) ELSE sl.stop)

\* lines 135-139
StepSelect(self, f) ==
  LET sl == MaskSlice(f.in.multimask_output)
      K  == Size0(ApplySlice([k \in 0..(f.masks.shape[2] - 1) |-> k], sl))
      Ki == Size0(ApplySlice([k \in 0..(f.iou_pred.shape[2] - 1) |-> k], sl))
  IN  [f EXCEPT
        !.pc = "done",
        !.out_masks =
           Tensor(<<f.masks.shape[1], K, f.masks.shape[3], f.masks.shape[4]>>,
                  [b \in DOMAIN f.masks.e |-> ApplySlice(f.masks.e[b], sl)]),
        !.out_iou_pred =
           Tensor(<<f.iou_pred.shape[1], Ki>>,
                  [b \in DOMAIN f.iou_pred.e |-> ApplySlice(f.iou_pred.e[b], sl)])]

\* variant: a single-mask call narrows the decoder to one mask token in place
SelfAfterStep_NarrowsTokens(self, f) ==
  IF f.pc = "select" /\ ~f.in.multimask_output
    THEN [self EXCEPT !.num_mask_tokens = 1]
    ELSE self

\* forward and predict_masks assign no attribute of self
SelfAfterStep(self, f) == self

(***************************************************************************)
(* The state machine.                                                      *)
(***************************************************************************)
NoArgs == [input_dim |-> 0, hidden_dim |-> 0, output_dim |-> 0, num_layers |-> 0,
           sigmoid_output |-> FALSE]

NoOut == [args |-> NoArgs, called |-> FALSE, ops |-> << >>, dim |-> 0]

Init ==
  /\ decoder = NoDecoder
  /\ frames = [t \in Threads |-> IdleFrame]
  /\ mlp = NoMLP
  /\ mlp_call = NoOut

\* MaskDecoder(transformer_dim=..., num_multimask_outputs=..., iou_head_depth=...)
Construct(transformer_dim, num_multimask_outputs, iou_head_depth) ==
  /\ ~decoder.constructed
  /\ decoder' = MaskDecoderInit(transformer_dim, num_multimask_outputs,
                                iou_head_depth, IouHeadHiddenDim)
  /\ UNCHANGED <<frames, mlp, mlp_call>>

\* forward(...) is entered by thread t (line 123)
Call(t, B, Bp, D, N, H, W, multimask_output) ==
  /\ decoder.constructed
  /\ frames[t].pc = "idle"
  /\ frames' = [frames EXCEPT ![t] =
                  StartFrame(MakeInputs(B, Bp, D, N, decoder.transformer_dim,
                                        H, W, multimask_output))]
  /\ UNCHANGED <<decoder, mlp, mlp_call>>

Tokens(t) ==
  /\ frames[t].pc = "tokens"
  /\ frames' = [frames EXCEPT ![t] = StepTokens(decoder, frames[t])]
  /\ decoder' = SelfAfterStep(decoder, frames[t])
  /\ UNCHANGED <<mlp, mlp_call>>

RepeatSrc(t) ==
  /\ frames[t].pc = "repeat_src"
  /\ frames' = [frames EXCEPT ![t] = StepRepeatSrc(decoder, frames[t])]
  /\ decoder' = SelfAfterStep(decoder, frames[t])
  /\ UNCHANGED <<mlp, mlp_call>>

AddDense(t) ==
  /\ frames[t].pc = "add_dense"
  /\ frames' = [frames EXCEPT ![t] = StepAddDense(decoder, frames[t])]
  /\ decoder' = SelfAfterStep(decoder, frames[t])
  /\ UNCHANGED <<mlp, mlp_call>>

RepeatPos(t) ==
  /\ frames[t].pc = "repeat_pos"
  /\ frames' = [frames EXCEPT ![t] = StepRepeatPos(decoder, frames[t])]
  /\ decoder' = SelfAfterStep(decoder, frames[t])
  /\ UNCHANGED <<mlp, mlp_call>>

RunTransformer(t) ==
  /\ frames[t].pc = "transformer"
  /\ \E mode \in TransformerModes(frames[t].src, frames[t].pos_src, frames[t].tokens) :
       frames' = [frames EXCEPT ![t] = StepTransformer(decoder, frames[t], mode)]
  /\ decoder' = SelfAfterStep(decoder, frames[t])
  /\ UNCHANGED <<mlp, mlp_call>>

Upscale(t) ==
  /\ frames[t].pc = "upscale"
  /\ frames' = [frames EXCEPT ![t] = StepUpscale(decoder, frames[t])]
  /\ decoder' = SelfAfterStep(decoder, frames[t])
  /\ UNCHANGED <<mlp, mlp_call>>

Loop(t) ==
  /\ frames[t].pc = "loop"
  /\ frames' = [frames EXCEPT ![t] = StepLoop(decoder, frames[t])]
  /\ decoder' = SelfAfterStep(decoder, frames[t])
  /\ UNCHANGED <<mlp, mlp_call>>

Hyper(t) ==
  /\ frames[t].pc = "hyper"
  /\ frames' = [frames EXCEPT ![t] = StepHyper(decoder, frames[t])]
  /\ decoder' = SelfAfterStep(decoder, frames[t])
  /\ UNCHANGED <<mlp, mlp_call>>

Matmul(t) ==
  /\ frames[t].pc = "matmul"
  /\ frames' = [frames EXCEPT ![t] = StepMatmul(decoder, frames[t])]
  /\ decoder' = SelfAfterStep(decoder, frames[t])
  /\ UNCHANGED <<mlp, mlp_call>>

Iou(t) ==
  /\ frames[t].pc = "iou"
  /\ frames' = [frames EXCEPT ![t] = StepIou(decoder, frames[t])]
  /\ decoder' = SelfAfterStep(decoder, frames[t])
  /\ UNCHANGED <<mlp, mlp_call>>

Select(t) ==
  /\ frames[t].pc = "select"
  /\ frames' = [frames EXCEPT ![t] = StepSelect(decoder, frames[t])]
  /\ decoder' = SelfAfterStep(decoder, frames[t])
  /\ UNCHANGED <<mlp, mlp_call>>

\* the caller has received the result (or the exception); the frame is gone
Return(t) ==
  /\ frames[t].pc \in {"done", "error"}
  /\ frames' = [frames EXCEPT ![t] = IdleFrame]
  /\ UNCHANGED <<decoder, mlp, mlp_call>>

(***************************************************************************)
(* Spec: one decoder, one caller, every input shape within the bounds.     *)
(***************************************************************************)
DoConstruct ==
  \E dim \in TransformerDims, multi \in 0..MaxMulti, depth \in 1..MaxDepth :
    Construct(dim, multi, depth)

DoCall ==
  \E B \in 1..MaxB, Bp \in 1..MaxInst, D \in 1..MaxDense, N \in 0..MaxN,
     H \in 1..MaxH, W \in 1..MaxW, mm \in BOOLEAN :
    Call(1, B, Bp, D, N, H, W, mm)

Next ==
  \/ DoConstruct
  \/ DoCall
  \/ Tokens(1)
  \/ RepeatSrc(1)
  \/ AddDense(1)
  \/ RepeatPos(1)
  \/ RunTransformer(1)
  \/ Upscale(1)
  \/ Loop(1)
  \/ Hyper(1)
  \/ Matmul(1)
  \/ Iou(1)
  \/ Select(1)
  \/ Return(1)

Spec == Init /\ [][Next]_vars

(***************************************************************************)
(* SpecConc: two callers whose forward calls interleave statement by       *)
(* statement on one decoder; the calls respect the transformer's contract. *)
(***************************************************************************)
DoConstructConc ==
  \E dim \in ConcDims, multi \in ConcMulti : Construct(dim, multi, IouHeadDepth)

DoCallConc ==
  \E t \in Threads, Bp \in 1..MaxInstConc, N \in 0..MaxNConc, mm \in BOOLEAN :
    \E D \in {1, Bp} : Call(t, 1, Bp, D, N, 1, 1, mm)

NextConc ==
  \/ DoConstructConc
  \/ DoCallConc
  \/ \E t \in Threads : Tokens(t)
  \/ \E t \in Threads : RepeatSrc(t)
  \/ \E t \in Threads : AddDense(t)
  \/ \E t \in Threads : RepeatPos(t)
  \/ \E t \in Threads : RunTransformer(t)
  \/ \E t \in Threads : Upscale(t)
  \/ \E t \in Threads : Loop(t)
  \/ \E t \in Threads : Hyper(t)
  \/ \E t \in Threads : Matmul(t)
  \/ \E t \in Threads : Iou(t)
  \/ \E t \in Threads : Select(t)
  \/ \E t \in Threads : Return(t)

SpecConc == Init /\ [][NextConc]_vars

\* the statement a frame is about to execute, as a function of the frame
StepOf(self, f) ==
  CASE f.pc = "tokens"      -> StepTokens(self, f)
    [] f.pc = "repeat_src"  -> StepRepeatSrc(self, f)
    [] f.pc = "add_dense"   -> StepAddDense(self, f)
    [] f.pc = "repeat_pos"  -> StepRepeatPos(self, f)
    [] f.pc = "transformer" ->
         StepTransformer(self, f,
           CHOOSE mode \in TransformerModes(f.src, f.pos_src, f.tokens) : TRUE)
    [] f.pc = "upscale"     -> StepUpscale(self, f)
    [] f.pc = "loop"        -> StepLoop(self, f)
    [] f.pc = "hyper"       -> StepHyper(self, f)
    [] f.pc = "matmul"      -> StepMatmul(self, f)
    [] f.pc = "iou"         -> StepIou(self, f)
    [] f.pc = "select"      -> StepSelect(self, f)
    [] OTHER                -> f

\* a forward call run from entry to return with nothing else running
RECURSIVE RunAlone(_, _)
RunAlone(self, f) ==
  IF f.pc \in {"idle", "done", "error"} THEN f ELSE RunAlone(self, StepOf(self, f))

ForwardAlone(self, inputs) == RunAlone(self, StartFrame(inputs))

(***************************************************************************)
(* SpecMLP: a stand-alone MLP is built and applied.                        *)
(***************************************************************************)
MLPConstruct ==
  \E input_dim \in 1..MaxWidth, hidden_dim \in 1..MaxWidth, output_dim \in 1..MaxWidth,
     num_layers \in 0..MaxLayers, sigmoid_output \in BOOLEAN :
    /\ mlp = NoMLP
    /\ mlp' = MLPInit(<<"mlp", 0>>, input_dim, hidden_dim, output_dim,
                      num_layers, sigmoid_output)
    /\ mlp_call' = [NoOut EXCEPT !.args =
                      [input_dim |-> input_dim, hidden_dim |-> hidden_dim,
                       output_dim |-> output_dim, num_layers |-> num_layers,
                       sigmoid_output |-> sigmoid_output]]
    /\ UNCHANGED <<decoder, frames>>

\* MLP.forward(x) on an x of width input_dim
MLPCall ==
  /\ mlp # NoMLP
  /\ ~mlp_call.called
  /\ mlp_call' = [mlp_call EXCEPT !.called = TRUE, !.ops = MLPForwardOps(mlp),
                                  !.dim = MLPOutDim(mlp)]
  /\ UNCHANGED <<decoder, frames, mlp>>

\* the MLP object is dropped
MLPDrop ==
  /\ mlp_call.called
  /\ mlp' = NoMLP
  /\ mlp_call' = NoOut
  /\ UNCHANGED <<decoder, frames>>

NextMLP == MLPConstruct \/ MLPCall \/ MLPDrop

SpecMLP == Init /\ [][NextMLP]_vars

(***************************************************************************)
(* Properties.                                                             *)
(***************************************************************************)
InB(f)    == f.in.image_embeddings.shape[1]
InH(f)    == f.in.image_embeddings.shape[3]
InW(f)    == f.in.image_embeddings.shape[4]
InInst(f) == f.in.sparse_prompt_embeddings.shape[1]
InN(f)    == f.in.sparse_prompt_embeddings.shape[2]
InD(f)    == f.in.dense_prompt_embeddings.shape[1]

\* the batch of the source after repeat_interleave
RepBatch(f) == InB(f) * InInst(f)

Finished(f) == f.pc \in {"done", "error"}

PastAdd(f) == f.pc \notin {"idle", "tokens", "repeat_src", "add_dense"}

AddError == "add: sizes of tensors must match"

\* K of the output selector
ExpectedK(f) == IF f.in.multimask_output THEN decoder.num_multimask_outputs ELSE 1

\* C1: every forward call with image batch B >= 1, positional encoding of the
\* same shape, B' >= 1 prompt instances and a dense embedding of batch B returns
\* masks of batch B' with K slots and quality scores of shape [B', K].
C1_OutputShapes ==
  \A t \in Threads :
    LET f == frames[t]
    IN  (Finished(f) /\ InD(f) = InB(f)) =>
          /\ f.pc = "done"
          /\ f.out_masks.shape[1] = InInst(f)
          /\ f.out_masks.shape[2] = ExpectedK(f)
          /\ f.out_iou_pred.shape = <<InInst(f), ExpectedK(f)>>

\* C3: a decoder whose transformer_dim is not divisible by 8 is never
\* constructed, so the hypernetwork projection dimension is transformer_dim / 8.
C3_ConstructionRejectsIndivisibleDim ==
  decoder.constructed =>
    /\ decoder.transformer_dim % 8 = 0
    /\ \A i \in DOMAIN decoder.output_hypernetworks_mlps :
         8 * MLPOutDim(decoder.output_hypernetworks_mlps[i]) = decoder.transformer_dim

\* C8: the repeated source, the positional encoding and the token sequence all
\* have batch B', the repeats of one image are contiguous and in image order,
\* and the source handed to the transformer is image plus dense embedding.
C8_PerInstanceBroadcast ==
  \A t \in Threads :
    LET f == frames[t]
    IN  /\ f.pc \in {"add_dense", "transformer"} =>
             /\ f.src.shape[1] = InInst(f)
             /\ f.tokens.shape[1] = InInst(f)
             /\ \A j, k \in DOMAIN f.src.e : j <= k => f.src.e[j].img <= f.src.e[k].img
        /\ f.pc = "transformer" =>
             /\ f.pos_src.shape[1] = InInst(f)
             /\ \A j \in DOMAIN f.src.e :
                  f.src.e[j].dense >= 0 /\ f.pos_src.e[j] = f.src.e[j].img

\* C2: with multimask_output the output is exactly slots 1..M-1 in order, without
\* it exactly slot 0; masks and scores are cut by the same indices, so score k
\* of the output belongs to mask k of the output.
C2_OutputSelector ==
  \A t \in Threads :
    LET f == frames[t]
        M == decoder.num_mask_tokens
    IN  f.pc = "done" =>
          /\ f.masks.shape[2] = M
          /\ DOMAIN f.out_masks.e = DOMAIN f.masks.e
          /\ DOMAIN f.out_iou_pred.e = DOMAIN f.iou_pred.e
          /\ \A b \in DOMAIN f.masks.e :
               IF f.in.multimask_output
                 THEN /\ f.out_masks.e[b] = [k \in 0..(M - 2) |-> f.masks.e[b][k + 1]]
                      /\ f.out_iou_pred.e[b] = [k \in 0..(M - 2) |-> f.iou_pred.e[b][k + 1]]
                 ELSE /\ f.out_masks.e[b] = [k \in 0..0 |-> f.masks.e[b][0]]
                      /\ f.out_iou_pred.e[b] = [k \in 0..0 |-> f.iou_pred.e[b][0]]
          /\ \A b \in DOMAIN f.out_masks.e :
               /\ DOMAIN f.out_masks.e[b] = DOMAIN f.out_iou_pred.e[b]
               /\ \A k \in DOMAIN f.out_masks.e[b] :
                    \A y \in DOMAIN f.out_masks.e[b][k] :
                      \A x \in DOMAIN f.out_masks.e[b][k][y] :
                        \A prod \in f.out_masks.e[b][k][y][x] :
                          prod.hm = f.out_iou_pred.e[b][k].slot

C2_Witness ==
  \E t \in Threads :
    /\ frames[t].pc = "done"
    /\ frames[t].in.multimask_output
    /\ decoder.num_mask_tokens >= 3
    /\ InInst(frames[t]) >= 2

\* C4 as stated: a call whose dense batch differs from the batch of the repeated
\* source ends in an error at the add and is never carried on.
C4_MismatchAlwaysRaises ==
  \A t \in Threads :
    LET f == frames[t]
    IN  (PastAdd(f) /\ InD(f) # RepBatch(f)) => f.pc = "error"

\* C4 amended: the add raises exactly when the dense batch and the batch of the
\* repeated source differ and neither is 1; when one of them is 1 it is
\* broadcast to the other and the call carries on with the broadcast source.
C4_MismatchRaisesUnlessBroadcast ==
  \A t \in Threads :
    LET f   == frames[t]
        big == IF InD(f) > RepBatch(f) THEN InD(f) ELSE RepBatch(f)
    IN  PastAdd(f) =>
          /\ (f.err = AddError) <=>
               (InD(f) # RepBatch(f) /\ InD(f) # 1 /\ RepBatch(f) # 1)
          /\ f.err # AddError =>
               /\ f.src.shape[1] = big
               /\ f.src.e = [j \in 0..(big - 1) |->
                               [img   |-> IF RepBatch(f) = 1 THEN 0 ELSE j \div InInst(f),
                                dense |-> IF InD(f) = 1 THEN 0 ELSE j]]

C4_Witness ==
  \E t \in Threads :
    /\ frames[t].pc = "done"
    /\ InD(frames[t]) = 1
    /\ RepBatch(frames[t]) > 1

\* C5: the upscaler is two kernel-2, stride-2 transposed convolutions with
\* channels C -> C/4 -> C/8, each doubling H and W, and the masks are shaped by
\* the upscaled 4H x 4W.
C5_FourTimesSpatial ==
  /\ decoder.constructed =>
       LET C == decoder.transformer_dim
       IN  /\ SelectSeq(decoder.output_upscaling, LAMBDA l : l.op = "conv_t") =
                << [op |-> "conv_t", cin |-> C, cout |-> C \div 4, kernel |-> 2, stride |-> 2],
                   [op |-> "conv_t", cin |-> C \div 4, cout |-> C \div 8, kernel |-> 2,
                    stride |-> 2] >>
           /\ \A k \in DOMAIN decoder.output_upscaling :
                LET l == decoder.output_upscaling[k]
                IN  l.op = "conv_t" =>
                      \A h \in 1..(2 * MaxH), w \in 1..(2 * MaxW) :
                        UpscaleShape(<<l>>, <<1, l.cin, h, w>>) = <<1, l.cout, 2 * h, 2 * w>>
  /\ \A t \in Threads :
       LET f == frames[t]
       IN  /\ f.pc \in {"loop", "hyper", "matmul", "iou", "select", "done"} =>
                f.upscaled_embedding.shape =
                  <<f.src.shape[1], decoder.transformer_dim \div 8, 4 * InH(f), 4 * InW(f)>>
           /\ f.pc \in {"iou", "select", "done"} =>
                /\ f.masks.shape[3] = 4 * InH(f)
                /\ f.masks.shape[4] = 4 * InW(f)
           /\ f.pc = "done" =>
                /\ f.out_masks.shape[3] = 4 * InH(f)
                /\ f.out_masks.shape[4] = 4 * InW(f)
                /\ \A b \in DOMAIN f.out_masks.e :
                     \A k \in DOMAIN f.out_masks.e[b] :
                       /\ DOMAIN f.out_masks.e[b][k] = 0..(4 * InH(f) - 1)
                       /\ \A y \in DOMAIN f.out_masks.e[b][k] :
                            DOMAIN f.out_masks.e[b][k][y] = 0..(4 * InW(f) - 1)

C5_Witness ==
  \E t \in Threads :
    /\ frames[t].pc = "done"
    /\ InH(frames[t]) = 2
    /\ InW(frames[t]) = 1
    /\ frames[t].out_masks.shape[2] >= 1

C7_CallsDoNotInterfere ==
  [][ /\ decoder.constructed => decoder' = decoder
      /\ \A t \in Threads :
           /\ frames'[t].pc = "idle" => frames'[t] = IdleFrame
           /\ frames'[t].pc = "done" =>
                LET alone == ForwardAlone(decoder', frames'[t].in)
                IN  /\ alone.pc = "done"
                    /\ frames'[t].out_masks = alone.out_masks
                    /\ frames'[t].out_iou_pred = alone.out_iou_pred ]_vars

C7_Witness ==
  /\ frames[1].pc = "done"
  /\ frames[2].pc = "done"
  /\ frames[1].in # frames[2].in
  /\ decoder.num_mask_tokens >= 2

C10_MaskSynthesis ==
  \A t \in Threads :
    LET f  == frames[t]
        up == f.upscaled_embedding
        C8 == decoder.transformer_dim \div 8
    IN  f.masks # NoTensor =>
          /\ f.masks.shape = <<up.shape[1], decoder.num_mask_tokens, up.shape[3], up.shape[4]>>
          /\ f.hyper_in.shape = <<up.shape[1], decoder.num_mask_tokens, C8>>
          /\ up.shape[2] = C8
          /\ f.masks.e =
               [b \in 0..(up.shape[1] - 1) |->
                  [m \in 0..(decoder.num_mask_tokens - 1) |->
                     [y \in 0..(up.shape[3] - 1) |->
                        [x \in 0..(up.shape[4] - 1) |->
                           { [hb |-> b, hm |-> m, c |-> cc, ub |-> b, uy |-> y, ux |-> x]
                             : cc \in 0..(C8 - 1) }]]]]

C10_Witness ==
  \E t \in Threads :
    /\ frames[t].masks # NoTensor
    /\ frames[t].masks.shape[1] >= 2
    /\ frames[t].masks.shape[2] >= 2
    /\ frames[t].masks.shape[3] # frames[t].masks.shape[4]
    /\ decoder.transformer_dim \div 8 >= 2

====
